---- MODULE Spec2Model ----
(***************************************************************************)
(* Model of the tree-sitter analysis engine: the LanguageManager parser    *)
(* cache (treesitter_mcp/core/language_manager.py), the shared analyzer    *)
(* algorithms _build_ast / analyze / run_query in their two copies         *)
(* (treesitter_mcp/core/analyzer.py and mcp_server/core/analyzer.py), the  *)
(* tools of the server (mcp_server/server.py) and the command line         *)
(* (treesitter_mcp/cli.py).                                                *)
(*                                                                         *)
(* The syntax-tree provider (tree_sitter) is a black box.  A "file" below  *)
(* is a source text (a Python str: a sequence of code points) together     *)
(* with the concrete tree the provider's grammar yields for it: nodes in   *)
(* pre-order, each with a type tag and a byte span into the UTF-8          *)
(* encoding of the text.                                                   *)
(***************************************************************************)
EXTENDS Integers, Sequences, FiniteSets, TLC

VARIABLES
    languages,  \* LanguageManager._languages : name -> Language object
    parsers,    \* LanguageManager._parsers   : name -> Parser object (a handle)
    created,    \* every Parser object ever constructed: created[h] = its language
    handed,     \* history: the <<name, handle>> pairs get_parser has returned
    ret,        \* outcome of the last LanguageManager call
    pkg,        \* which copy of the analyzer is running
    analyzer,   \* get_language_name() of the analyzer instance in use
    file,       \* the file (source text + provider tree) under analysis
    query,      \* the pattern query under execution
    file_path,  \* the path argument: the dot-separated parts of its basename
    language_manager, \* the analyzer's only field: the manager it was built with
    ast,        \* outcome of the last _build_ast call
    analyses,   \* history: the last two results analyze returned for `file`
    qcall,      \* outcome of the last run_query call
    pc,         \* per thread: position inside get_parser
    targ,       \* per thread: the language_name argument
    tlocal,     \* per thread: the local variable `parser`
    tret,       \* per thread: the value get_parser returned
    sel,        \* the analyzer the server and the CLI selected for `file_path`
    tcall,      \* outcome of the last server tool call
    cli         \* outcome of the last CLI invocation

manager == <<languages, parsers, created, handed, ret>>

inputs == <<pkg, analyzer, file, query, file_path, language_manager>>

threads == <<pc, targ, tlocal, tret>>

frontend == <<sel, tcall, cli>>

vars == <<manager, inputs, ast, analyses, qcall, threads, frontend>>

-----------------------------------------------------------------------------
(* Bounds *)

MaxNodes == 4

MaxMatches == 3

MaxQNodes == 2

NThreads == 2

\* the most dot-separated parts a basename has
MaxParts == 3

-----------------------------------------------------------------------------
(* Optional values: None is <<>>, a present value x is <<x>>. *)

None == <<>>

Some(x) == <<x>>

-----------------------------------------------------------------------------
(* Text: a str is a sequence of code points; bytes is a sequence of 0..255 *)

\* 'a' (one byte in UTF-8), e-acute (two bytes), newline (ends a row)
Alphabet == {10, 97, 233}

Utf8(c) == IF c < 128 THEN <<c>> ELSE <<192 + (c \div 64), 128 + (c % 64)>>

RECURSIVE Encode(_)
Encode(s) == IF s = <<>> THEN <<>> ELSE Utf8(Head(s)) \o Encode(Tail(s))

\* bytes.decode('utf-8'): the code points, or DecodeError on a malformed slice
DecodeError == <<-1>>

RECURSIVE Decode(_)
Decode(b) ==
    IF b = <<>> THEN <<>>
    ELSE IF b[1] < 128
         THEN LET r == Decode(Tail(b))
              IN IF r = DecodeError THEN DecodeError ELSE <<b[1]>> \o r
         ELSE IF b[1] >= 192 /\ b[1] < 224 /\ Len(b) >= 2
                 /\ b[2] >= 128 /\ b[2] < 192
              THEN LET r == Decode(SubSeq(b, 3, Len(b)))
                   IN IF r = DecodeError THEN DecodeError
                      ELSE <<(b[1] - 192) * 64 + (b[2] - 128)>> \o r
              ELSE DecodeError

Min(a, b) == IF a < b THEN a ELSE b

\* Python's s[a:b] for 0 <= a, 0 <= b: indices are clamped to len(s)
Slice(s, a, b) == SubSeq(s, Min(a, Len(s)) + 1, Min(b, Len(s)))

-----------------------------------------------------------------------------
(* Provider trees *)

RECURSIVE AncOrSelf(_, _)
AncOrSelf(p, i) == IF i = 0 THEN {} ELSE {i} \cup AncOrSelf(p, p[i])

\* parent vectors of ordered trees whose nodes are numbered in pre-order
Shapes(n) ==
    {p \in [1..n -> 0..(n - 1)] :
        /\ p[1] = 0
        /\ \A i \in 2..n : p[i] \in AncOrSelf(p, i - 1)}

ChildSet(p, i) == {j \in DOMAIN p : p[j] = i}

RECURSIVE SortedSeq(_)
SortedSeq(S) ==
    IF S = {} THEN <<>>
    ELSE LET m == CHOOSE x \in S : \A y \in S : x <= y
         IN <<m>> \o SortedSeq(S \ {m})

\* node.children, in source order
Children(f, i) == SortedSeq(ChildSet(f.parent, i))

LeafSet(p) == {i \in DOMAIN p : ChildSet(p, i) = {}}

\* last node of the subtree rooted at i (pre-order numbering)
SubtreeEnd(p, i) ==
    CHOOSE m \in DOMAIN p :
        /\ m >= i
        /\ \A j \in i..m : i \in AncOrSelf(p, j)
        /\ (m + 1 \in DOMAIN p => i \notin AncOrSelf(p, m + 1))

RECURSIVE ConcatLeaves(_, _, _)
ConcatLeaves(lt, lo, hi) ==
    IF lo > hi THEN <<>>
    ELSE (IF lo \in DOMAIN lt THEN lt[lo] ELSE <<>>) \o ConcatLeaves(lt, lo + 1, hi)

LeafTexts == {<<>>} \cup {<<c>> : c \in Alphabet}

NodeType(p, lt, i) ==
    IF i = 1 THEN "module"
    ELSE IF ChildSet(p, i) # {} THEN "function_definition"
    ELSE IF lt[i] = <<>> THEN "MISSING"
    ELSE IF lt[i] = <<10>> THEN "newline"
    ELSE "identifier"

\* the file whose tree has shape p and whose leaves carry the texts lt
MkFile(p, lt) ==
    LET n == Len(p)
    IN [code   |-> ConcatLeaves(lt, 1, n),
        n      |-> n,
        parent |-> p,
        type   |-> [i \in 1..n |-> NodeType(p, lt, i)],
        start_byte |-> [i \in 1..n |-> Len(Encode(ConcatLeaves(lt, 1, i - 1)))],
        end_byte   |-> [i \in 1..n |->
                          Len(Encode(ConcatLeaves(lt, 1, SubtreeEnd(p, i))))]]

FilesOfSize(n) ==
    UNION {{MkFile(p, lt) : lt \in [LeafSet(p) -> LeafTexts]} : p \in Shapes(n)}

Files == UNION {FilesOfSize(n) : n \in 1..MaxNodes}

\* bytes(code, "utf8")
SourceBytes(f) == Encode(f.code)

Count(b, x) == Cardinality({k \in DOMAIN b : b[k] = x})

LastIndexOf(b, x) ==
    IF Count(b, x) = 0 THEN 0
    ELSE CHOOSE k \in DOMAIN b : b[k] = x /\ \A j \in DOMAIN b : b[j] = x => j <= k

\* the provider's (row, column) of a byte offset: column counts bytes in the row
PointAt(f, off) ==
    LET before == SubSeq(SourceBytes(f), 1, off)
    IN [row |-> Count(before, 10), column |-> off - LastIndexOf(before, 10)]

\* node.text: the bytes of the node's span
NodeBytes(f, i) == SubSeq(SourceBytes(f), f.start_byte[i] + 1, f.end_byte[i])

\* node.id: unique within one parse; `base` is where the provider put the tree
NodeId(base, i) == base + i

\* where the provider may allocate a tree
IdBases == {1000, 2000}

-----------------------------------------------------------------------------
(* LanguageManager *)

\* the language identifiers callers pass: the three supported ones, two unknown
Names == {"c", "cpp", "python", "rust", ""}

\* LanguageManager.__init__: the language table and an empty parser cache
LanguageTable == [l \in {"c", "cpp", "python"} |-> <<"Language", l>>]

NoCall == [op |-> "none"]

\* `language_name not in self._languages`
Unsupported(name) == name \notin DOMAIN languages

\* `language_name not in self._parsers`
CacheMissAlways(ps, name) == TRUE

CacheMiss(ps, name) == name \notin DOMAIN ps

\* the cache rebuilt around the new entry
PutAlone(ps, name, h) == [k \in {name} |-> h]

\* self._parsers[language_name] = parser
Put(ps, name, h) == [k \in DOMAIN ps \cup {name} |-> IF k = name THEN h ELSE ps[k]]

\* the exception get_language raises
UnsupportedLanguage(name) ==
    [exc |-> "ValueError", msg |-> <<"Language ", name, " not supported">>]

\* the cache after the miss branch of get_parser: the store is reached only
\* when get_language returned
StoreBeforeLookup(ps, name, h) == Put(ps, name, h)

ParsersAfterMiss(ps, name, h) == IF Unsupported(name) THEN ps ELSE Put(ps, name, h)

\* Parser(language): a new object, identified by its position in `created`
NewParser == Len(created) + 1

\* LanguageManager.get_language
GetLanguage(name) ==
    /\ ret' = IF Unsupported(name)
              THEN [op |-> "get_language", arg |-> name, status |-> "raised",
                    value |-> UnsupportedLanguage(name), miss |-> FALSE]
              ELSE [op |-> "get_language", arg |-> name, status |-> "returned",
                    value |-> languages[name], miss |-> FALSE]
    /\ UNCHANGED <<languages, parsers, created, handed, inputs, ast, analyses,
                   qcall, threads, frontend>>

\* LanguageManager.get_parser, run to completion by one caller
get_parser(name) ==
    /\ IF CacheMiss(parsers, name)
       THEN /\ parsers' = ParsersAfterMiss(parsers, name, NewParser)
            /\ IF Unsupported(name)
               THEN /\ created' = created
                    /\ handed' = handed
                    /\ ret' = [op |-> "get_parser", arg |-> name, status |-> "raised",
                               value |-> UnsupportedLanguage(name), miss |-> TRUE]
               ELSE /\ created' = Append(created, languages[name])
                    /\ handed' = handed \cup {<<name, parsers'[name]>>}
                    /\ ret' = [op |-> "get_parser", arg |-> name, status |-> "returned",
                               value |-> parsers'[name], miss |-> TRUE]
       ELSE /\ parsers' = parsers
            /\ created' = created
            /\ handed' = handed \cup {<<name, parsers[name]>>}
            /\ ret' = [op |-> "get_parser", arg |-> name, status |-> "returned",
                       value |-> parsers[name], miss |-> FALSE]
    /\ languages' = languages

GetParser(name) ==
    /\ get_parser(name)
    /\ UNCHANGED <<inputs, ast, analyses, qcall, threads, frontend>>

-----------------------------------------------------------------------------
(* BaseAnalyzer._build_ast *)

Impls == {"treesitter_mcp", "mcp_server"}

\* Point(row=node.start_point[0], column=node.start_point[1]), same for end
StartPointSwapped(f, i) ==
    [row |-> PointAt(f, f.start_byte[i]).column, column |-> PointAt(f, f.start_byte[i]).row]

StartPoint(f, i) == PointAt(f, f.start_byte[i])

EndPoint(f, i) == PointAt(f, f.end_byte[i])

\* the guard of the recursion
DescendInclusive(depth, max_depth) == max_depth = -1 \/ depth <= max_depth

Descend(depth, max_depth) == max_depth = -1 \/ depth < max_depth

\* the text of a node, in each copy of the analyzer
NodeText(impl, f, i) ==
    IF impl = "treesitter_mcp"
    THEN (IF NodeBytes(f, i) # <<>> THEN Some(Decode(NodeBytes(f, i))) ELSE None)
    ELSE Some(Slice(f.code, f.start_byte[i], f.end_byte[i]))

\* text = None; if not children: text = ...
TextAlways(impl, f, i, children) == NodeText(impl, f, i)

TextFor(impl, f, i, children) ==
    IF children = <<>> THEN NodeText(impl, f, i) ELSE None

\* children = [self._build_ast(child, ...) for child in node.children]
RECURSIVE build_ast(_, _, _, _, _, _)
build_ast(impl, f, base, i, depth, max_depth) ==
    LET ch == Children(f, i)
        children == IF Descend(depth, max_depth)
                    THEN [k \in 1..Len(ch) |->
                            build_ast(impl, f, base, ch[k], depth + 1, max_depth)]
                    ELSE <<>>
    IN [type        |-> f.type[i],
        start_point |-> StartPoint(f, i),
        end_point   |-> EndPoint(f, i),
        children    |-> children,
        text        |-> TextFor(impl, f, i, children),
        id          |-> NodeId(base, i)]

\* the max_depth values callers pass (treesitter_get_ast takes any int)
DepthArgs == (-2)..MaxNodes

InitCommon ==
    /\ languages = LanguageTable
    /\ parsers = [l \in {} |-> 0]
    /\ created = <<>>
    /\ handed = {}
    /\ ret = NoCall
    /\ ast = None
    /\ analyses = <<>>
    /\ qcall = NoCall
    /\ pc = [t \in 1..NThreads |-> "idle"]
    /\ targ = [t \in 1..NThreads |-> ""]
    /\ tlocal = [t \in 1..NThreads |-> 0]
    /\ tret = [t \in 1..NThreads |-> 0]
    /\ sel = [server |-> NoCall, cli |-> NoCall]
    /\ tcall = NoCall
    /\ cli = NoCall
    /\ language_manager = "language_manager"

\* analyzer._build_ast(tree.root_node, code, max_depth=max_depth) on `file`
BuildAst(base, max_depth) ==
    /\ ast' = Some([max_depth |-> max_depth,
                    node |-> build_ast(pkg, file, base, 1, 0, max_depth)])
    /\ UNCHANGED <<manager, inputs, analyses, qcall, threads, frontend>>

NoFile == [code |-> <<>>, n |-> 0]

NoQuery == [compiles |-> FALSE, diag |-> "", captures |-> <<>>]

NoPath == <<>>

Init ==
    /\ InitCommon
    /\ pkg = "treesitter_mcp"
    /\ analyzer = "python"
    /\ file = NoFile
    /\ query = NoQuery
    /\ file_path = NoPath

Next ==
    \/ \E name \in Names : GetLanguage(name)
    \/ \E name \in Names : GetParser(name)

Spec == Init /\ [][Next]_vars

-----------------------------------------------------------------------------
(* get_parser called from several threads: one step per statement *)

Threads == 1..NThreads

\* a thread enters get_parser(name); each thread makes one call
Call(t, name) ==
    /\ pc[t] = "idle"
    /\ pc' = [pc EXCEPT ![t] = "test"]
    /\ targ' = [targ EXCEPT ![t] = name]
    /\ UNCHANGED <<manager, inputs, ast, analyses, qcall, tlocal, tret,
                   frontend>>

\* if language_name not in self._parsers:
Test(t) ==
    /\ pc[t] = "test"
    /\ pc' = [pc EXCEPT ![t] = IF CacheMiss(parsers, targ[t]) THEN "create" ELSE "return"]
    /\ UNCHANGED <<manager, inputs, ast, analyses, qcall, targ, tlocal, tret,
                   frontend>>

\* parser = Parser(self.get_language(language_name))
Create(t) ==
    /\ pc[t] = "create"
    /\ IF Unsupported(targ[t])
       THEN /\ pc' = [pc EXCEPT ![t] = "raised"]
            /\ UNCHANGED <<created, tlocal>>
       ELSE /\ created' = Append(created, languages[targ[t]])
            /\ tlocal' = [tlocal EXCEPT ![t] = NewParser]
            /\ pc' = [pc EXCEPT ![t] = "store"]
    /\ UNCHANGED <<languages, parsers, handed, ret, inputs, ast, analyses,
                   qcall, targ, tret, frontend>>

\* self._parsers[language_name] = parser
Store(t) ==
    /\ pc[t] = "store"
    /\ parsers' = Put(parsers, targ[t], tlocal[t])
    /\ pc' = [pc EXCEPT ![t] = "return"]
    /\ UNCHANGED <<languages, created, handed, ret, inputs, ast, analyses,
                   qcall, targ, tlocal, tret, frontend>>

\* return self._parsers[language_name]
Return(t) ==
    /\ pc[t] = "return"
    /\ tret' = [tret EXCEPT ![t] = parsers[targ[t]]]
    /\ handed' = handed \cup {<<targ[t], parsers[targ[t]]>>}
    /\ pc' = [pc EXCEPT ![t] = "done"]
    /\ UNCHANGED <<languages, parsers, created, ret, inputs, ast, analyses,
                   qcall, targ, tlocal, frontend>>

NextConc ==
    \E t \in Threads :
        \/ \E name \in Names : Call(t, name)
        \/ Test(t)
        \/ Create(t)
        \/ Store(t)
        \/ Return(t)

SpecConc == Init /\ [][NextConc]_vars

InitAst ==
    /\ InitCommon
    /\ pkg \in Impls
    /\ analyzer = "python"
    /\ file \in Files
    /\ query = NoQuery
    /\ file_path = NoPath

NextAst == \E base \in IdBases, d \in DepthArgs : BuildAst(base, d)

SpecAst == InitAst /\ [][NextAst]_vars

-----------------------------------------------------------------------------
(* BaseAnalyzer.parse / analyze *)

\* get_language_name() of the three analyzers
AnalyzerNames == {"python", "c", "cpp"}

\* the tree the provider yields when the parser has nothing left of an earlier parse
StaleTree(f) ==
    [code |-> f.code, n |-> 1, parent |-> <<0>>, type |-> <<"ERROR">>,
     start_byte |-> <<0>>, end_byte |-> <<Len(Encode(f.code))>>]

ParsedFileStale(f, reused) == IF reused THEN StaleTree(f) ELSE f

\* parser.parse(bytes(code, "utf8")): the tree of the text, whether the parser
\* is new or comes from the cache
ParsedFile(f, reused) == f

\* the path analyze is given for `file`
FilePath == "input"

\* a declaration node with a name-bearing child yields one Symbol
IsNamedDecl(f, i) ==
    /\ f.type[i] = "function_definition"
    /\ \E j \in ChildSet(f.parent, i) : f.type[j] = "identifier"

NameChild(f, i) ==
    CHOOSE j \in ChildSet(f.parent, i) :
        /\ f.type[j] = "identifier"
        /\ \A k \in ChildSet(f.parent, i) : f.type[k] = "identifier" => j <= k

RECURSIVE extract_symbols(_, _, _)
extract_symbols(f, path, i) ==
    IF i > f.n THEN <<>>
    ELSE (IF IsNamedDecl(f, i)
          THEN <<[name      |-> Decode(NodeBytes(f, NameChild(f, i))),
                  kind      |-> "function",
                  location  |-> [start |-> PointAt(f, f.start_byte[i]),
                                 end   |-> PointAt(f, f.end_byte[i])],
                  file_path |-> path]>>
          ELSE <<>>) \o extract_symbols(f, path, i + 1)

\* the AnalysisResult of analyze(file_path, code) by the analyzer named `name`
AnalysisResult(name, f, base, reused) ==
    LET tree == ParsedFile(f, reused)
    IN [file_path |-> FilePath,
        language  |-> name,
        ast       |-> build_ast(pkg, tree, base, 1, 0, -1),
        symbols   |-> extract_symbols(tree, FilePath, 1),
        errors    |-> <<>>]

\* keep the last two results
Remember(h, r) == IF Len(h) < 2 THEN Append(h, r) ELSE <<h[2], r>>

\* analyze(file_path, code): parse (through get_parser), _build_ast, extract_symbols
Analyze(base) ==
    /\ get_parser(analyzer)
    /\ analyses' = Remember(analyses,
                            AnalysisResult(analyzer, file, base,
                                           ~CacheMiss(parsers, analyzer)))
    /\ UNCHANGED <<inputs, ast, qcall, threads, frontend>>

InitAnalyze ==
    /\ InitCommon
    /\ pkg \in Impls
    /\ analyzer \in AnalyzerNames
    /\ file \in Files
    /\ query = NoQuery
    /\ file_path = NoPath

NextAnalyze == \E base \in IdBases : Analyze(base)

SpecAnalyze == InitAnalyze /\ [][NextAnalyze]_vars

-----------------------------------------------------------------------------
(* BaseAnalyzer.run_query *)

CaptureNames == {"fn", "name"}

\* node lists of length 1..k over a set of nodes
RECURSIVE NodeLists(_, _)
NodeLists(N, k) ==
    IF k = 0 THEN {}
    ELSE {<<x>> : x \in N} \cup {Append(l, x) : l \in NodeLists(N, k - 1), x \in N}

\* what cursor.captures returns: capture name -> matched nodes, in the
\* provider's order; a dict, so names are distinct
CaptureDicts(N) ==
    {<<>>}
    \cup {<<[name |-> c, nodes |-> l]>> : c \in CaptureNames, l \in NodeLists(N, MaxMatches)}
    \cup {<<[name |-> c, nodes |-> l], [name |-> d, nodes |-> m]>> :
             c \in CaptureNames, d \in CaptureNames,
             l \in NodeLists(N, MaxMatches - 1), m \in NodeLists(N, MaxMatches - 1)}

RECURSIVE TotalMatches(_)
TotalMatches(caps) ==
    IF caps = <<>> THEN 0 ELSE Len(Head(caps).nodes) + TotalMatches(Tail(caps))

\* the queries: one that does not compile, and compiling ones, each with the
\* captures the provider delivers for it on `f`
Queries(f) ==
    {[compiles |-> FALSE, diag |-> "QueryError", captures |-> <<>>]}
    \cup {[compiles |-> TRUE, diag |-> "", captures |-> caps] :
             caps \in {c \in CaptureDicts(1..f.n) :
                          /\ TotalMatches(c) <= MaxMatches
                          /\ (Len(c) = 2 => c[1].name # c[2].name)}}

\* the text of a matched node, in each copy of the analyzer
MatchText(impl, f, i) ==
    IF impl = "treesitter_mcp"
    THEN (IF NodeBytes(f, i) # <<>> THEN Decode(NodeBytes(f, i)) ELSE <<>>)
    ELSE Slice(f.code, f.start_byte[i], f.end_byte[i])

MatchRecord(impl, f, name, i) ==
    [capture_name |-> name,
     text  |-> MatchText(impl, f, i),
     start |-> PointAt(f, f.start_byte[i]),
     end   |-> PointAt(f, f.end_byte[i]),
     type  |-> f.type[i]]

\* for node in nodes: results.append({...})
LastNodeOnly(impl, f, cap) ==
    <<MatchRecord(impl, f, cap.name, cap.nodes[Len(cap.nodes)])>>

RecordsFor(impl, f, cap) ==
    [j \in 1..Len(cap.nodes) |-> MatchRecord(impl, f, cap.name, cap.nodes[j])]

\* for capture_name, nodes in captures.items(): ...
RECURSIVE QueryResults(_, _, _)
QueryResults(impl, f, caps) ==
    IF caps = <<>> THEN <<>>
    ELSE RecordsFor(impl, f, Head(caps)) \o QueryResults(impl, f, Tail(caps))

\* except Exception as e: raise ValueError(f"Invalid query: {e}")
InvalidQuery(e) == [exc |-> "ValueError", msg |-> <<"Invalid query: ", e>>]

\* run_query(query_str, root_node, code) by the analyzer named `name`;
\* root_ok: root_node is a Node (cursor.captures raises TypeError otherwise)
run_query(name, q, root_ok) ==
    IF Unsupported(name)
    THEN [status |-> "raised", value |-> UnsupportedLanguage(name),
          cause |-> "language lookup"]
    ELSE IF ~q.compiles
    THEN [status |-> "raised", value |-> InvalidQuery(q.diag), cause |-> "compile"]
    ELSE IF ~root_ok
    THEN [status |-> "raised", value |-> InvalidQuery("TypeError"),
          cause |-> "result construction"]
    ELSE [status |-> "returned", value |-> QueryResults(pkg, file, q.captures),
          cause |-> "none"]

RunQuery(root_ok) ==
    /\ qcall' = [op |-> "run_query", out |-> run_query(analyzer, query, root_ok)]
    /\ UNCHANGED <<manager, inputs, ast, analyses, threads, frontend>>

QueryFiles == UNION {FilesOfSize(n) : n \in 1..MaxQNodes}

\* analyzers as shipped, and one whose language the manager does not know
QueryAnalyzers == AnalyzerNames \cup {"rust"}

InitQuery ==
    /\ InitCommon
    /\ pkg \in Impls
    /\ analyzer \in QueryAnalyzers
    /\ file \in QueryFiles
    /\ query \in Queries(file)
    /\ file_path = NoPath

NextQuery == \E root_ok \in BOOLEAN : RunQuery(root_ok)

SpecQuery == InitQuery /\ [][NextQuery]_vars

-----------------------------------------------------------------------------
(* Analyzer selection by file extension: mcp_server/server.py get_analyzer *)
(* and the extension table of treesitter_mcp/cli.py                        *)

\* the pieces of a basename between its dots: "a.tar.py" is <<"a","tar","py">>,
\* ".bashrc" is <<"", "bashrc">>, "a." is <<"a", "">>, "Makefile" is <<"Makefile">>
PartNames == {"", "a", "py", "c", "cpp", "cc", "cxx", "h", "hpp", "PY", "H", "txt"}

Paths == UNION {[1..n -> PartNames] : n \in 1..MaxParts}

\* os.path.splitext(p)[1]: from the last dot on, unless only dots precede it
splitext(p) ==
    IF Len(p) >= 2 /\ \E k \in 1..(Len(p) - 1) : p[k] # ""
    THEN "." \o p[Len(p)]
    ELSE ""

\* get_analyzer(file_path) of the server; an analyzer is named by its language
get_analyzer(p) ==
    LET ext == splitext(p)
    IN IF ext = ".py" THEN Some("python")
       ELSE IF ext = ".c" THEN Some("c")
       ELSE IF ext \in {".cpp", ".cc", ".cxx", ".h", ".hpp"} THEN Some("cpp")
       ELSE None

\* the table without its '.h' row
CliAnalyzersWithoutH ==
    [e \in {".py", ".c", ".cpp", ".cc", ".cxx", ".hpp"} |->
        IF e = ".py" THEN "python" ELSE IF e = ".c" THEN "c" ELSE "cpp"]

\* the `analyzers` dict of the CLI
CliAnalyzers ==
    [e \in {".py", ".c", ".cpp", ".cc", ".cxx", ".h", ".hpp"} |->
        IF e = ".py" THEN "python" ELSE IF e = ".c" THEN "c" ELSE "cpp"]

\* analyzer = analyzers.get(ext); if not analyzer: '.h' falls back to the C
\* analyzer, anything else is unsupported
cli_analyzer(p) ==
    LET ext == splitext(p)
        found == IF ext \in DOMAIN CliAnalyzers THEN Some(CliAnalyzers[ext]) ELSE None
    IN IF found = None
       THEN (IF ext = ".h" THEN Some("c") ELSE None)
       ELSE found

ServerSelect ==
    /\ sel.server = NoCall
    /\ sel' = [sel EXCEPT !.server = [op |-> "get_analyzer",
                                      ext |-> splitext(file_path),
                                      out |-> get_analyzer(file_path)]]
    /\ UNCHANGED <<manager, inputs, ast, analyses, qcall, threads, tcall, cli>>

CliSelect ==
    /\ sel.cli = NoCall
    /\ sel' = [sel EXCEPT !.cli = [op |-> "analyzers.get",
                                   ext |-> splitext(file_path),
                                   out |-> cli_analyzer(file_path)]]
    /\ UNCHANGED <<manager, inputs, ast, analyses, qcall, threads, tcall, cli>>

InitSelect ==
    /\ InitCommon
    /\ pkg = "treesitter_mcp"
    /\ analyzer = "python"
    /\ file = NoFile
    /\ query = NoQuery
    /\ file_path \in Paths

NextSelect == ServerSelect \/ CliSelect

SpecSelect == InitSelect /\ [][NextSelect]_vars

-----------------------------------------------------------------------------
(* The server tools of mcp_server/server.py.  Every tool taking a file_path *)
(* has one shape: get_analyzer, an early return for no analyzer, then a try *)
(* block around open/read, parse and the operation, with `except Exception` *)
(* turning whatever was raised into {"error": ...}.  The language analyzers *)
(* (find_function, get_call_graph, ...) and the provider are outside the    *)
(* model: what they return is opaque and they may raise.                    *)

FileTools ==
    {"treesitter_analyze_file", "treesitter_get_call_graph",
     "treesitter_find_function", "treesitter_find_variable",
     "treesitter_get_ast", "treesitter_run_query", "treesitter_find_usage",
     "treesitter_get_dependencies"}

\* the tools with a `language: str = None` parameter
LanguageTools == {"treesitter_run_query", "treesitter_find_usage"}

\* the text before str(e) in each tool's except clause
ErrorPrefix(tool) ==
    CASE tool = "treesitter_analyze_file"     -> "Error analyzing file: "
      [] tool = "treesitter_get_call_graph"   -> "Error generating call graph: "
      [] tool = "treesitter_find_function"    -> "Error finding function: "
      [] tool = "treesitter_find_variable"    -> "Error finding variable: "
      [] tool = "treesitter_get_ast"          -> "Error getting AST: "
      [] tool = "treesitter_run_query"        -> "Error running query: "
      [] tool = "treesitter_find_usage"       -> "Error finding usage: "
      [] tool = "treesitter_get_dependencies" -> "Error getting dependencies: "

\* the statements of a tool after get_analyzer; analyze_file has no parse of
\* its own (analyze parses)
Stages(tool) ==
    IF tool = "treesitter_analyze_file" THEN <<"open", "op">>
    ELSE <<"open", "parse", "op">>

\* the file_path as one str
RECURSIVE PathStr(_)
PathStr(p) ==
    IF p = <<>> THEN ""
    ELSE IF Len(p) = 1 THEN p[1]
    ELSE p[1] \o "." \o PathStr(Tail(p))

\* what the environment does to one call: nothing, or an exception raised by
\* open/read, by the provider during parse, or by the operation
NoFault == [stage |-> "none"]

Faults ==
    {NoFault,
     [stage |-> "open",  exc |-> [exc |-> "PermissionError", msg |-> <<"Permission denied">>]],
     [stage |-> "open",  exc |-> [exc |-> "UnicodeDecodeError", msg |-> <<"invalid start byte">>]],
     [stage |-> "parse", exc |-> [exc |-> "ValueError", msg |-> <<"Incompatible Language version">>]],
     [stage |-> "op",    exc |-> [exc |-> "RecursionError",
                                  msg |-> <<"maximum recursion depth exceeded">>]]}

\* the statements inside the try block, with open outside it
TryBlockAfterOpen == {"parse", "op"}

\* the statements inside the try block
TryBlock == {"open", "parse", "op"}

\* the stages run until `s` inclusive
RECURSIVE Through(_, _)
Through(stages, s) ==
    IF stages = <<>> THEN <<>>
    ELSE IF Head(stages) = s THEN <<s>>
    ELSE <<Head(stages)>> \o Through(Tail(stages), s)

\* one tool call on path p: `fault` is what the environment raises, `out` is
\* the outcome of the operation when it is reached ([status, value])
tool_call(tool, p, language, fault, out) ==
    LET a == get_analyzer(p)
    IN IF a = None
       THEN [op |-> tool, language |-> language, used |-> None,
             steps |-> <<"get_analyzer">>, failure |-> None, raised |-> None,
             ret |-> [error |-> <<"Unsupported file type: ", PathStr(p)>>]]
       ELSE LET at  == IF fault.stage # "none" THEN fault.stage
                       ELSE IF out.status = "raised" THEN "op"
                       ELSE "none"
                exc == IF fault.stage # "none" THEN Some(fault.exc)
                       ELSE IF out.status = "raised" THEN Some(out.value)
                       ELSE None
                run == IF at = "none" THEN Stages(tool) ELSE Through(Stages(tool), at)
            IN [op |-> tool, language |-> language, used |-> a,
                steps |-> <<"get_analyzer">> \o run,
                failure |-> exc,
                raised |-> IF exc # None /\ at \notin TryBlock THEN exc ELSE None,
                ret |-> IF exc = None THEN out.value
                        ELSE IF at \in TryBlock
                        THEN [error |-> <<ErrorPrefix(tool)>> \o exc[1].msg]
                        ELSE None]

\* analyzer.parse(code) is reached: the analyzer asks the manager for its parser
Parses(tool, p, fault) ==
    /\ get_analyzer(p) # None
    /\ fault.stage # "open"
    /\ (tool = "treesitter_analyze_file" => fault.stage = "none")

\* what a language analyzer's method returns
Returned(v) == [status |-> "returned", value |-> v]

ToolCall(tool, language, fault, out) ==
    /\ tool \in FileTools
    /\ fault.stage \in {"none"} \cup {Stages(tool)[k] : k \in DOMAIN Stages(tool)}
    /\ tcall' = tool_call(tool, file_path, language, fault, out)
    /\ IF Parses(tool, file_path, fault)
       THEN get_parser(get_analyzer(file_path)[1])
       ELSE UNCHANGED manager
    /\ UNCHANGED <<inputs, ast, analyses, qcall, threads, sel, cli>>

\* the analyzer get_analyzer(file_path) gives, for computing what it returns
UsedName == IF get_analyzer(file_path) = None THEN "" ELSE get_analyzer(file_path)[1]

\* result.model_dump() followed by result_dict.pop('ast', None)
DropAst(r) == [k \in (DOMAIN r) \ {"ast"} |-> r[k]]

\* the value of a method of a language analyzer
Opaque(method) == Returned([method |-> method, analyzer |-> UsedName])

\* the optional `language` argument
LanguageArgs == {None} \cup {Some(n) : n \in AnalyzerNames}

treesitter_analyze_file(fault) ==
    \E base \in IdBases :
        ToolCall("treesitter_analyze_file", None, fault,
                 Returned([DropAst(AnalysisResult(UsedName, file, base,
                                                  ~CacheMiss(parsers, UsedName)))
                              EXCEPT !.file_path = PathStr(file_path)]))

treesitter_get_call_graph(fault) ==
    ToolCall("treesitter_get_call_graph", None, fault, Opaque("get_call_graph"))

treesitter_find_function(fault) ==
    ToolCall("treesitter_find_function", None, fault, Opaque("find_function"))

treesitter_find_variable(fault) ==
    ToolCall("treesitter_find_variable", None, fault, Opaque("find_variable"))

treesitter_get_supported_languages ==
    /\ tcall' = [op |-> "treesitter_get_supported_languages", language |-> None,
                 used |-> None, steps |-> <<>>, failure |-> None, raised |-> None,
                 ret |-> <<"python", "c", "cpp">>]
    /\ UNCHANGED <<manager, inputs, ast, analyses, qcall, threads, sel, cli>>

treesitter_get_ast(max_depth, fault) ==
    \E base \in IdBases :
        ToolCall("treesitter_get_ast", None, fault,
                 Returned(build_ast(pkg, file, base, 1, 0, max_depth)))

treesitter_run_query(language, fault) ==
    ToolCall("treesitter_run_query", language, fault,
             run_query(UsedName, query, TRUE))

treesitter_find_usage(language, fault) ==
    ToolCall("treesitter_find_usage", language, fault, Opaque("find_usage"))

treesitter_get_dependencies(fault) ==
    ToolCall("treesitter_get_dependencies", None, fault, Opaque("get_dependencies"))

\* one path for each analyzer, and paths no analyzer is mapped to
ToolPaths == {<<"a">>} \cup {<<"a", e>> : e \in {"py", "c", "h", "PY", "txt"}}

\* max_depth arguments: the default and the root alone
ToolDepths == {-1, 0}

\* the pattern that does not compile and the patterns with at most one match
ToolQueries(f) == {q \in Queries(f) : TotalMatches(q.captures) <= 1}

InitServer ==
    /\ InitCommon
    /\ pkg = "mcp_server"
    /\ analyzer = "python"
    /\ file \in FilesOfSize(1)
    /\ query \in ToolQueries(file)
    /\ file_path \in ToolPaths

NextServer ==
    \E fault \in Faults :
        \/ treesitter_analyze_file(fault)
        \/ treesitter_get_call_graph(fault)
        \/ treesitter_find_function(fault)
        \/ treesitter_find_variable(fault)
        \/ treesitter_get_supported_languages
        \/ \E max_depth \in ToolDepths : treesitter_get_ast(max_depth, fault)
        \/ \E language \in LanguageArgs : treesitter_run_query(language, fault)
        \/ \E language \in LanguageArgs : treesitter_find_usage(language, fault)
        \/ treesitter_get_dependencies(fault)

SpecServer == InitServer /\ [][NextServer]_vars

-----------------------------------------------------------------------------
(* The engine's operations called one after another on one manager and one *)
(* analyzer                                                                *)

\* BaseAnalyzer.parse(code): get_parser for the analyzer's language, then the
\* provider's parse, whose tree is handed back and not kept
Parse ==
    /\ get_parser(analyzer)
    /\ UNCHANGED <<inputs, ast, analyses, qcall, threads, frontend>>

\* the queries with no match: one compiling, one not
FrameQueries(f) == {q \in Queries(f) : TotalMatches(q.captures) = 0}

InitFrame ==
    /\ InitCommon
    /\ pkg = "treesitter_mcp"
    /\ analyzer \in {"c", "rust"}
    /\ file \in {f \in FilesOfSize(1) : Len(f.code) = 1}
    /\ query \in FrameQueries(file)
    /\ file_path = NoPath

NextFrame ==
    \/ \E name \in Names : GetLanguage(name)
    \/ \E name \in Names : GetParser(name)
    \/ Parse
    \/ \E base \in IdBases : Analyze(base)
    \/ \E base \in IdBases, max_depth \in ToolDepths : BuildAst(base, max_depth)
    \/ RunQuery(TRUE)

SpecFrame == InitFrame /\ [][NextFrame]_vars

-----------------------------------------------------------------------------
(* The command line of treesitter_mcp/cli.py: one process, one invocation, *)
(* with a LanguageManager of its own                                       *)

\* the value of a string option: absent (None), or given, possibly empty
OptionValues == {None, Some(""), Some("f")}

\* args after parse_args(): three store_true flags and four string options
ArgSets ==
    [call_graph : BOOLEAN, find_function : OptionValues,
     find_variable : OptionValues, ast : BOOLEAN, query : OptionValues,
     find_usage : OptionValues, dependencies : BOOLEAN]

\* an option counts whenever it was passed
TruthyWhenPassed(v) == v # None

\* the truth value `if args.x:` sees: None and '' are false
Truthy(v) == v # None /\ v[1] # ""

\* the if/elif chain of main: the branch taken
Branch(args) ==
    IF args.call_graph THEN "get_call_graph"
    ELSE IF Truthy(args.find_function) THEN "find_function"
    ELSE IF Truthy(args.find_variable) THEN "find_variable"
    ELSE IF args.ast THEN "_build_ast"
    ELSE IF Truthy(args.query) THEN "run_query"
    ELSE IF Truthy(args.find_usage) THEN "find_usage"
    ELSE IF args.dependencies THEN "get_dependencies"
    ELSE "analyze"

\* sys.exit(1) with the line printed to stderr before it
Exit1(c, stage, text) ==
    [c EXCEPT !.pc = "exited", !.status = 1, !.failed = stage, !.stderr = text]

\* main up to and including `tree = analyzer.parse(code)`
CliParse(args, exists, fault) ==
    /\ cli = NoCall
    /\ fault.stage \in {"none", "open", "parse"}
    /\ LET c == [op |-> "main", pc |-> "parsed", args |-> args, exists |-> exists,
                 ext |-> splitext(file_path), analyzer |-> cli_analyzer(file_path),
                 ops |-> <<>>, out |-> None, status |-> 0, failed |-> "none",
                 stderr |-> <<>>]
       IN IF ~exists
          THEN /\ cli' = Exit1(c, "exists", <<"File not found: ", PathStr(file_path)>>)
               /\ UNCHANGED manager
          ELSE IF cli_analyzer(file_path) = None
          THEN /\ cli' = Exit1(c, "extension",
                               <<"Unsupported file extension: ", splitext(file_path)>>)
               /\ UNCHANGED manager
          ELSE IF fault.stage = "open"
          THEN /\ cli' = Exit1(c, "open", <<"Error analyzing file: ">> \o fault.exc.msg)
               /\ UNCHANGED manager
          ELSE /\ get_parser(cli_analyzer(file_path)[1])
               /\ cli' = IF fault.stage = "parse"
                         THEN Exit1(c, "parse",
                                    <<"Error analyzing file: ">> \o fault.exc.msg)
                         ELSE c
    /\ UNCHANGED <<inputs, ast, analyses, qcall, threads, sel, tcall>>

\* what the branch `b` calls and prints, when nothing raises
CliOutcome(b, name, base) ==
    IF b = "analyze" THEN Returned(AnalysisResult(name, file, base, TRUE))
    ELSE IF b = "_build_ast" THEN Returned(build_ast(pkg, file, base, 1, 0, -1))
    ELSE IF b = "run_query" THEN run_query(name, query, TRUE)
    ELSE Returned([method |-> b, analyzer |-> name])

\* the if/elif chain of main and the exit of the process
CliOperate(fault, base) ==
    /\ cli # NoCall
    /\ cli.pc = "parsed"
    /\ fault.stage \in {"none", "op"}
    /\ LET b   == Branch(cli.args)
           out == CliOutcome(b, cli.analyzer[1], base)
           c   == [cli EXCEPT !.pc = "exited", !.ops = <<b>>]
       IN /\ cli' = IF fault.stage = "op"
                    THEN Exit1(c, "op", <<"Error analyzing file: ">> \o fault.exc.msg)
                    ELSE IF out.status = "raised"
                    THEN Exit1(c, "op", <<"Error analyzing file: ">> \o out.value.msg)
                    ELSE [c EXCEPT !.out = Some(out.value)]
          /\ IF b = "analyze"
             THEN get_parser(cli.analyzer[1])
             ELSE UNCHANGED manager
    /\ UNCHANGED <<inputs, ast, analyses, qcall, threads, sel, tcall>>

CliPaths == {<<"a", e>> : e \in {"py", "h", "txt"}}

InitCli ==
    /\ InitCommon
    /\ pkg = "treesitter_mcp"
    /\ analyzer = "python"
    /\ file \in {f \in FilesOfSize(1) : f.code = <<97>>}
    /\ query \in FrameQueries(file)
    /\ file_path \in CliPaths

NextCli ==
    \E fault \in Faults :
        \/ \E args \in ArgSets, exists \in BOOLEAN : CliParse(args, exists, fault)
        \/ \E base \in IdBases : CliOperate(fault, base)

SpecCli == InitCli /\ [][NextCli]_vars

-----------------------------------------------------------------------------
(* Measurements of a returned ASTNode tree *)

RECURSIVE OutCount(_)
OutCount(t) ==
    IF t.children = <<>> THEN 1
    ELSE 1 + OutCount(Head(t.children))
           + OutCount([t EXCEPT !.children = Tail(t.children)]) - 1

RECURSIVE OutHeight(_)
OutHeight(t) ==
    IF t.children = <<>> THEN 0
    ELSE LET hs == {OutHeight(t.children[k]) : k \in DOMAIN t.children}
         IN 1 + (CHOOSE h \in hs : \A g \in hs : g <= h)

RECURSIVE ParentsHaveNoText(_)
ParentsHaveNoText(t) ==
    /\ (t.children # <<>> => t.text = None)
    /\ \A k \in DOMAIN t.children : ParentsHaveNoText(t.children[k])

RECURSIVE SomeLeafHasText(_)
SomeLeafHasText(t) ==
    \/ (t.children = <<>> /\ t.text # None)
    \/ \E k \in DOMAIN t.children : SomeLeafHasText(t.children[k])

\* out was built from provider node i: every node above depth d kept all its children
RECURSIVE FullAbove(_, _, _, _, _)
FullAbove(out, f, i, depth, d) ==
    depth < d =>
        /\ Len(out.children) = Len(Children(f, i))
        /\ \A k \in DOMAIN out.children :
              FullAbove(out.children[k], f, Children(f, i)[k], depth + 1, d)

RECURSIVE SameShape(_, _, _)
SameShape(out, f, i) ==
    /\ out.type = f.type[i]
    /\ out.start_point = PointAt(f, f.start_byte[i])
    /\ out.end_point = PointAt(f, f.end_byte[i])
    /\ Len(out.children) = Len(Children(f, i))
    /\ \A k \in DOMAIN out.children :
          k <= Len(Children(f, i)) => SameShape(out.children[k], f, Children(f, i)[k])

\* the exact source slice of provider node i: its bytes, UTF-8 decoded
SpanText(f, i) == Decode(NodeBytes(f, i))

RECURSIVE LeavesCarrySpan(_, _, _)
LeavesCarrySpan(out, f, i) ==
    /\ (out.children = <<>> => out.text = Some(SpanText(f, i)))
    /\ \A k \in DOMAIN out.children :
          k <= Len(Children(f, i)) =>
             LeavesCarrySpan(out.children[k], f, Children(f, i)[k])

FileHeight == OutHeight(build_ast("mcp_server", file, 0, 1, 0, -1))

-----------------------------------------------------------------------------
(* C4: in every tree _build_ast returns, a node with a non-empty children  *)
(* list has text None; text is set only on nodes without children.         *)
C4_ParentsHaveNoText == ast # None => ParentsHaveNoText(ast[1].node)

C4_Witness ==
    /\ ast # None
    /\ ast[1].node.children # <<>>
    /\ ast[1].node.text = None
    /\ SomeLeafHasText(ast[1].node)

(* C5: with max_depth = d >= 0 the result has no node deeper than d (so no *)
(* node at depth d has children), every node above depth d has one output  *)
(* child per provider child, and d = 0 gives the root with no children.    *)
C5_DepthLimit ==
    (ast # None /\ ast[1].max_depth >= 0) =>
        /\ OutHeight(ast[1].node) <= ast[1].max_depth
        /\ FullAbove(ast[1].node, file, 1, 0, ast[1].max_depth)
        /\ (ast[1].max_depth = 0 => ast[1].node.children = <<>>)

C5_Witness ==
    /\ ast # None
    /\ file.code # <<>>
    /\ ast[1].max_depth = 1
    /\ FileHeight >= 2
    /\ OutHeight(ast[1].node) = 1

(* C6 as stated: every output node without children carries non-null text *)
(* equal to the UTF-8 decoded bytes of its span, in both analyzer copies.  *)
C6_LeavesCarrySpan == ast # None => LeavesCarrySpan(ast[1].node, file, 1)

(* C7: with max_depth = -1 the output has as many nodes as the provider    *)
(* tree and each node has the type, start/end point and number of children *)
(* (in order) of the provider node it was built from.                      *)
C7_FullShape ==
    (ast # None /\ ast[1].max_depth = -1) =>
        /\ OutCount(ast[1].node) = file.n
        /\ SameShape(ast[1].node, file, 1)

C7_Witness ==
    /\ ast # None
    /\ file.code # <<>>
    /\ ast[1].max_depth = -1
    /\ file.n >= 3
    /\ FileHeight >= 2
    /\ OutCount(ast[1].node) = file.n

-----------------------------------------------------------------------------
Supported == {"c", "cpp", "python"}

HandlesReturned(name) == {h \in 1..Len(created) : <<name, h>> \in handed}

ParsersCreated(name) == {h \in 1..Len(created) : created[h] = LanguageTable[name]}

(* C1: over any sequence of get_parser calls, all calls for one supported  *)
(* language returned the same parser handle and at most one parser was     *)
(* created for that language.                                              *)
C1_GetParserIdempotent ==
    \A name \in Supported :
        /\ Cardinality(HandlesReturned(name)) <= 1
        /\ Cardinality(ParsersCreated(name)) <= 1
        /\ \A p \in handed : p[1] = name => created[p[2]] = LanguageTable[name]

C1_Witness ==
    /\ ret.op = "get_parser"
    /\ ret.status = "returned"
    /\ ~ret.miss
    /\ Len(created) = Cardinality(Supported)
    /\ \A name \in Supported : Cardinality(HandlesReturned(name)) = 1

(* C2: get_parser and get_language with an unknown identifier raise the    *)
(* ValueError "Language <name> not supported", and that call leaves the    *)
(* parser cache and the language table as they were, with no entry for the *)
(* unknown identifier.                                                     *)
C2_UnknownLanguageFails ==
    [][(ret'.op # "none" /\ ret'.arg \notin Supported) =>
          /\ ret'.status = "raised"
          /\ ret'.value = [exc |-> "ValueError",
                           msg |-> <<"Language ", ret'.arg, " not supported">>]
          /\ parsers' = parsers
          /\ languages' = languages
          /\ ret'.arg \notin DOMAIN parsers'
          /\ ret'.arg \notin DOMAIN languages']_vars

C2_Witness ==
    /\ ret.op = "get_parser"
    /\ ret.arg = "rust"
    /\ ret.status = "raised"
    /\ DOMAIN parsers = Supported

(* C3 as stated: under any interleaving of the membership test, parser    *)
(* creation and cache store, all threads asking for one language receive   *)
(* the same parser and only one parser is created for that language.       *)
C3_ConcurrentLookupOrCreate ==
    \A name \in Supported :
        /\ \A t, u \in Threads :
              (pc[t] = "done" /\ pc[u] = "done" /\ targ[t] = name /\ targ[u] = name)
                  => tret[t] = tret[u]
        /\ Cardinality(ParsersCreated(name)) <= 1

-----------------------------------------------------------------------------
\* an ASTNode tree with every id token blanked
RECURSIVE StripIds(_)
StripIds(t) ==
    [type        |-> t.type,
     start_point |-> t.start_point,
     end_point   |-> t.end_point,
     children    |-> [k \in DOMAIN t.children |-> StripIds(t.children[k])],
     text        |-> t.text,
     id          |-> None]

TwoAnalysesOfSameInput ==
    /\ Len(analyses) = 2
    /\ analyses[1].language = analyses[2].language

C9_InvalidQueryOnlyForCompile ==
    qcall.op = "run_query" =>
        /\ (~query.compiles /\ qcall.out.cause # "language lookup") =>
              /\ qcall.out.status = "raised"
              /\ qcall.out.value = [exc |-> "ValueError",
                                    msg |-> <<"Invalid query: ", query.diag>>]
        /\ (qcall.out.status = "raised" /\ qcall.out.value.msg[1] = "Invalid query: ") =>
              qcall.out.cause = "compile"

\* the index in the flat list of the j-th node of the c-th capture
RECURSIVE OffsetOf(_, _)
OffsetOf(caps, c) == IF c = 1 THEN 0 ELSE Len(caps[c - 1].nodes) + OffsetOf(caps, c - 1)

(* C10: on success run_query returns one record per (capture, node) pair:  *)
(* as many records as matched nodes, in capture order then node order,     *)
(* each with the capture name and the node's type and points.              *)
C10_OneRecordPerPair ==
    (qcall.op = "run_query" /\ qcall.out.status = "returned") =>
        LET caps == query.captures
            res  == qcall.out.value
        IN /\ Len(res) = TotalMatches(caps)
           /\ \A c \in DOMAIN caps : \A j \in DOMAIN caps[c].nodes :
                 LET r == res[OffsetOf(caps, c) + j]
                     i == caps[c].nodes[j]
                 IN /\ r.capture_name = caps[c].name
                    /\ r.type = file.type[i]
                    /\ r.start = PointAt(file, file.start_byte[i])
                    /\ r.end = PointAt(file, file.end_byte[i])

C10_Witness ==
    /\ qcall.op = "run_query"
    /\ qcall.out.status = "returned"
    /\ Len(query.captures) = 2
    /\ Len(query.captures[1].nodes) = 2
    /\ Len(qcall.out.value) = 3
    /\ qcall.out.value[2].capture_name # qcall.out.value[3].capture_name

-----------------------------------------------------------------------------
(* C11: selection by extension gives python for '.py', c for '.c', cpp for *)
(* '.cpp', '.cc', '.cxx', '.h' and '.hpp', and nothing for every other     *)
(* extension (none, or a case variant); the server's get_analyzer and the  *)
(* CLI's table select the same analyzer for every path.                    *)
LanguageOfExtension(ext) ==
    CASE ext = ".py" -> Some("python")
      [] ext = ".c" -> Some("c")
      [] ext \in {".cpp", ".cc", ".cxx", ".h", ".hpp"} -> Some("cpp")
      [] OTHER -> None

C11_ExtensionMapping ==
    /\ sel.server # NoCall => sel.server.out = LanguageOfExtension(sel.server.ext)
    /\ sel.cli # NoCall => sel.cli.out = LanguageOfExtension(sel.cli.ext)
    /\ (sel.server # NoCall /\ sel.cli # NoCall) => sel.server.out = sel.cli.out

C11_Witness ==
    /\ file_path = <<"a", "c", "h">>
    /\ sel.server # NoCall
    /\ sel.cli # NoCall
    /\ sel.server.ext = ".h"
    /\ sel.cli.out = Some("cpp")

-----------------------------------------------------------------------------
\* text contains the pieces of m, in order and adjacent
Includes(text, m) ==
    \E i \in 0..(Len(text) - Len(m)) : SubSeq(text, i + 1, i + Len(m)) = m

(* C12: a tool taking a file_path never lets an exception reach its caller: *)
(* when open/read, parse or the operation raised (an invalid query too),   *)
(* or the extension is unmapped, the value returned is a dictionary whose  *)
(* only key is 'error' and whose message contains the message of what was  *)
(* raised; for an unmapped extension nothing after get_analyzer is run.    *)
C12_ToolsReturnErrorDict ==
    tcall.op \in FileTools =>
        /\ tcall.raised = None
        /\ tcall.failure # None =>
              /\ DOMAIN tcall.ret = {"error"}
              /\ Includes(tcall.ret.error, tcall.failure[1].msg)
        /\ get_analyzer(file_path) = None =>
              /\ tcall.steps = <<"get_analyzer">>
              /\ DOMAIN tcall.ret = {"error"}
              /\ tcall.ret.error = <<"Unsupported file type: ", PathStr(file_path)>>

C12_Witness ==
    /\ tcall.op = "treesitter_run_query"
    /\ tcall.failure = Some(InvalidQuery("QueryError"))
    /\ tcall.ret = [error |-> <<"Error running query: ", "Invalid query: ", "QueryError">>]

(* C13 as stated: in treesitter_run_query and treesitter_find_usage a given *)
(* language argument selects the analyzer, and the file extension selects  *)
(* it only when the argument is absent.                                    *)
C13_LanguageOverride ==
    tcall.op \in LanguageTools =>
        tcall.used = (IF tcall.language # None THEN tcall.language
                      ELSE get_analyzer(file_path))

-----------------------------------------------------------------------------
(* C14: no step of parse, analyze, _build_ast, run_query, get_language or  *)
(* get_parser changes the language table or the analyzer's field; in the   *)
(* parser cache every entry present before the step is present after it    *)
(* with the same parser, and every key of the cache is a supported         *)
(* language.                                                               *)
C14_OnlyCacheGrows ==
    [][/\ languages' = languages
       /\ language_manager' = language_manager
       /\ \A k \in DOMAIN parsers : k \in DOMAIN parsers' /\ parsers'[k] = parsers[k]
       /\ DOMAIN parsers' \subseteq Supported]_vars

C14_Witness ==
    /\ Cardinality(DOMAIN parsers) = 2
    /\ ret.op = "get_parser"
    /\ ret.status = "raised"
    /\ Len(analyses) = 2
    /\ ast # None
    /\ qcall.op = "run_query"

-----------------------------------------------------------------------------
(* C15 as stated: for every max_depth below -1 _build_ast returns the root *)
(* alone: no children, its text populated, and the same node that          *)
(* max_depth = 0 gives for the same tree.                                  *)
C15_BelowMinusOneIsRootAlone ==
    (ast # None /\ ast[1].max_depth < -1) =>
        /\ ast[1].node.children = <<>>
        /\ ast[1].node.text # None
        /\ \E base \in IdBases : ast[1].node = build_ast(pkg, file, base, 1, 0, 0)

-----------------------------------------------------------------------------
\* the options in their order of priority, each with the operation it asks for
Priority ==
    <<[option |-> "call_graph",    operation |-> "get_call_graph"],
      [option |-> "find_function", operation |-> "find_function"],
      [option |-> "find_variable", operation |-> "find_variable"],
      [option |-> "ast",           operation |-> "_build_ast"],
      [option |-> "query",         operation |-> "run_query"],
      [option |-> "find_usage",    operation |-> "find_usage"],
      [option |-> "dependencies",  operation |-> "get_dependencies"]>>

\* the option was given: a set flag, or a string option with a non-empty value
Given(args, o) ==
    IF o \in {"call_graph", "ast", "dependencies"}
    THEN args[o]
    ELSE args[o] # None /\ args[o] # Some("")

\* the operation of the first given option, or the full analyze
OperationByPriority(args) ==
    IF \E k \in DOMAIN Priority : Given(args, Priority[k].option)
    THEN Priority[CHOOSE k \in DOMAIN Priority :
                     /\ Given(args, Priority[k].option)
                     /\ \A j \in 1..(k - 1) : ~Given(args, Priority[j].option)].operation
    ELSE "analyze"

(* C16 as stated: an invocation on an existing file with a supported       *)
(* extension performs exactly one analysis operation, the one of the first *)
(* given option in priority order (an empty-string value is not given),    *)
(* and the exit status is 1 when the file does not exist, the extension is *)
(* unsupported or the operation raises.                                    *)
C16_ExactlyOneOperation ==
    (cli # NoCall /\ cli.pc = "exited") =>
        /\ (cli.exists /\ cli.analyzer # None) =>
              cli.ops = <<OperationByPriority(cli.args)>>
        /\ (~cli.exists \/ cli.analyzer = None \/ cli.failed = "op") => cli.status = 1

(* C16, amended: the one operation is performed when the file exists, its  *)
(* extension is supported and reading and parsing it raised nothing;       *)
(* otherwise no operation is performed; the exit status is 1 exactly when  *)
(* the file does not exist, the extension is unsupported, or reading,      *)
(* parsing or the operation raised.                                        *)
C16_OneOperationAfterParse ==
    (cli # NoCall /\ cli.pc = "exited") =>
        /\ cli.ops = IF cli.exists /\ cli.analyzer # None
                        /\ cli.failed \notin {"open", "parse"}
                     THEN <<OperationByPriority(cli.args)>>
                     ELSE <<>>
        /\ cli.failed = (IF ~cli.exists THEN "exists"
                         ELSE IF cli.analyzer = None THEN "extension"
                         ELSE cli.failed)
        /\ cli.status = (IF cli.failed = "none" THEN 0 ELSE 1)

C16_Witness ==
    /\ cli # NoCall
    /\ cli.pc = "exited"
    /\ cli.args.find_function = Some("")
    /\ cli.args.query = Some("f")
    /\ cli.args.dependencies
    /\ ~cli.args.call_graph
    /\ cli.args.find_variable = None
    /\ ~cli.args.ast
    /\ cli.ops = <<"run_query">>
    /\ cli.status = 0

====
